---- MODULE Spec2Model ----
(***************************************************************************)
(* Model of maps-info (src/update.py, src/structs.py): a batch job that    *)
(* fetches four JSON collections, normalises every record in place and     *)
(* writes the collection and every record to disk.                         *)
(*                                                                         *)
(* A Python str is a sequence of one-character strings.  A JSON/Python     *)
(* value is a tagged record [t, v]; a dict (a map record, a Mapper) is a   *)
(* function from its keys to values.                                       *)
(***************************************************************************)
EXTENDS Integers, Sequences, FiniteSets, TLC

VARIABLES
    pc,         \* position of _main in its loop body
    src,        \* index of the current entry of _FILE_NAMES
    maps_json,  \* the collection fetched for the current source
    idx,        \* index of the record the current loop is at
    files,      \* the file system: file path -> content
    dirs,       \* the file system: existing directories
    outcome,    \* "running", "returned", or the name of the exception raised
    trace,      \* the events of the run, in order
    served,     \* number of records the remote has served in this run
    arg,        \* the argument of the function under test
    ret,        \* the result of its last application
    prev,       \* the result of the application before
    calls       \* number of applications so far

vars == <<pc, src, maps_json, idx, files, dirs, outcome, trace, served,
          arg, ret, prev, calls>>
mainVars == <<pc, src, maps_json, idx, files, dirs, outcome, trace, served>>
unitVars == <<arg, ret, prev, calls>>

(***************************************************************************)
(* Bounds                                                                  *)
(***************************************************************************)
MaxFrags == 3     \* a test string is the concatenation of at most MaxFrags fragments
MaxServed == 4    \* total number of records the remote serves in one run

(***************************************************************************)
(* Python values                                                           *)
(***************************************************************************)
None == [t |-> "none", v |-> 0]
PyStr(s) == [t |-> "str", v |-> s]
PyInt(n) == [t |-> "int", v |-> n]
PyBool(b) == [t |-> "bool", v |-> b]
PyList(l) == [t |-> "list", v |-> l]
PyDict(d) == [t |-> "dict", v |-> d]

\* the outcome of a call: a returned value, or the exception raised
Return(x) == [exc |-> "", val |-> x]
Raise(e) == [exc |-> e, val |-> None]

\* Python truth value testing (`not val`, `s and ...`)
Truthy(x) ==
    CASE x.t = "none" -> FALSE
      [] x.t = "str" -> x.v # <<>>
      [] x.t = "int" -> x.v # 0
      [] x.t = "bool" -> x.v
      [] x.t = "list" -> x.v # <<>>
      [] x.t = "dict" -> DOMAIN x.v # {}

\* dict operations
HasKey(d, k) == k \in DOMAIN d
DelKey(d, k) == [x \in DOMAIN d \ {k} |-> d[x]]
SetKey(d, k, x) == [y \in DOMAIN d \cup {k} |-> IF y = k THEN x ELSE d[y]]
EmptyDict == [x \in {} |-> None]

Max(a, b) == IF a >= b THEN a ELSE b

(***************************************************************************)
(* Python str methods and conversions, on sequences of characters          *)
(***************************************************************************)
OccursAt(s, p, i) ==
    /\ i >= 1
    /\ i + Len(p) - 1 <= Len(s)
    /\ \A k \in 1..Len(p) : s[i + k - 1] = p[k]

\* str.find, 1-based; 0 when p does not occur in s
str_find(s, p) ==
    IF \E i \in 1..Len(s) : OccursAt(s, p, i)
    THEN CHOOSE i \in 1..Len(s) :
            OccursAt(s, p, i) /\ \A j \in 1..(i - 1) : ~OccursAt(s, p, j)
    ELSE 0

\* str.replace(old, new, 1)
str_replace(s, old, new) ==
    LET i == str_find(s, old)
    IN  IF i = 0 THEN s
        ELSE SubSeq(s, 1, i - 1) \o new \o SubSeq(s, i + Len(old), Len(s))

\* str.split(sep), sep non-empty
RECURSIVE str_split(_, _)
str_split(s, sep) ==
    LET i == str_find(s, sep)
    IN  IF i = 0 THEN <<s>>
        ELSE <<SubSeq(s, 1, i - 1)>> \o str_split(SubSeq(s, i + Len(sep), Len(s)), sep)

Digits == <<"0", "1", "2", "3", "4", "5", "6", "7", "8", "9">>
IsDigit(c) == \E d \in 1..10 : Digits[d] = c
DigitVal(c) == (CHOOSE d \in 1..10 : Digits[d] = c) - 1

RECURSIVE lstrip(_)
lstrip(s) == IF s # <<>> /\ Head(s) = " " THEN lstrip(Tail(s)) ELSE s
RECURSIVE rstrip(_)
rstrip(s) == IF s # <<>> /\ s[Len(s)] = " " THEN rstrip(SubSeq(s, 1, Len(s) - 1)) ELSE s

RECURSIVE DecValue(_)
DecValue(ds) ==
    IF ds = <<>> THEN 0
    ELSE 10 * DecValue(SubSeq(ds, 1, Len(ds) - 1)) + DigitVal(ds[Len(ds)])

\* the literals int(str) accepts: optional blanks, optional sign, digits
IntBody(s) ==
    LET b == rstrip(lstrip(s))
    IN  IF b # <<>> /\ Head(b) \in {"+", "-"} THEN Tail(b) ELSE b
IsIntLiteral(s) ==
    /\ IntBody(s) # <<>>
    /\ \A k \in 1..Len(IntBody(s)) : IsDigit(IntBody(s)[k])
IntLiteralValue(s) ==
    LET b == rstrip(lstrip(s))
    IN  IF Head(b) = "-" THEN 0 - DecValue(IntBody(s)) ELSE DecValue(IntBody(s))

\* int(x)
py_int(x) ==
    CASE x.t = "int" -> Return(x)
      [] x.t = "bool" -> Return(PyInt(IF x.v THEN 1 ELSE 0))
      [] x.t = "str" -> IF IsIntLiteral(x.v) THEN Return(PyInt(IntLiteralValue(x.v)))
                        ELSE Raise("ValueError")
      [] OTHER -> Raise("TypeError")

RECURSIVE DecDigits(_)
DecDigits(n) ==
    IF n < 10 THEN <<Digits[n + 1]>>
    ELSE DecDigits(n \div 10) \o <<Digits[(n % 10) + 1]>>

\* str(x), for the scalar values
py_str(x) ==
    CASE x.t = "str" -> x
      [] x.t = "int" -> PyStr(IF x.v < 0 THEN <<"-">> \o DecDigits(0 - x.v) ELSE DecDigits(x.v))
      [] x.t = "bool" -> PyStr(IF x.v THEN <<"T", "r", "u", "e">> ELSE <<"F", "a", "l", "s", "e">>)
      [] x.t = "none" -> PyStr(<<"N", "o", "n", "e">>)

(***************************************************************************)
(* structs.py: Mapper                                                      *)
(***************************************************************************)
NullText == <<"n", "u", "l", "l">>

\* __fix_val with the emptiness test dropped: only 'null' becomes None
__fix_val_not_null(s, type) ==
    IF ~(s.t = "str" /\ s.v = NullText)
    THEN IF type = "str" THEN Return(py_str(s)) ELSE py_int(s)
    ELSE Return(None)

\* Mapper.__fix_val; type is "str" or "int"
__fix_val(s, type) ==
    IF Truthy(s) /\ ~(s.t = "str" /\ s.v = NullText)
    THEN IF type = "str" THEN Return(py_str(s)) ELSE py_int(s)
    ELSE Return(None)

NAME_KEY == "name"
ID64_KEY == "id64"

\* Mapper.__init__: the dict built, or the exception a conversion raises
Mapper(name, id64) ==
    LET n == __fix_val(name, "str")
        i == __fix_val(id64, "int")
    IN  IF n.exc # "" THEN n
        ELSE IF i.exc # "" THEN i
        ELSE Return([k \in {NAME_KEY, ID64_KEY} |->
                        IF k = NAME_KEY THEN n.val ELSE i.val])

(***************************************************************************)
(* update.py: constants                                                    *)
(***************************************************************************)
_FILE_NAMES == <<
    [fkey |-> "MapsWithMappers", fname |-> <<"m", "a", "p", "s">>],
    [fkey |-> "MapsWithMappers_Global", fname |-> <<"g", "l", "o", "b", "a", "l">>],
    [fkey |-> "MapsWithMappers_NonGlobal",
     fname |-> <<"n", "o", "n", "-", "g", "l", "o", "b", "a", "l">>],
    [fkey |-> "IncompletedMaps",
     fname |-> <<"u", "n", "c", "o", "m", "p", "l", "e", "t", "e", "d">>] >>

_ID_KEY == "id"
_NAME_KEY == "name"
_MAPPER_NAME_KEY == "mapper_name"
_MAPPER_ID64_KEY == "mapper_steamid64"
_MAPPERS_KEY == "mappers"
_STR_SEPARATOR == <<",", " ">>

_URL_KEYS == <<"workshop_url">>
_INT_KEYS == <<"id", "difficulty">>

_JSON_INDENT == 4
_DUMP_JSON_FILE_EXT == <<".", "j", "s", "o", "n">>
_DUMP_JSON_FILE_MIN_EXT == <<".", "m", "i", "n">> \o _DUMP_JSON_FILE_EXT

(***************************************************************************)
(* update.py: the normaliser.  A transform of a record yields              *)
(* [exc, rec]: the exception raised ("" when none) and the record as the   *)
(* call leaves it.                                                         *)
(***************************************************************************)
Done(rec) == [exc |-> "", rec |-> rec]
Fail(e, rec) == [exc |-> e, rec |-> rec]

\* _str_to_list splitting at ',' instead of ', '
_str_to_list_comma(val, sep) ==
    IF ~Truthy(val) THEN Return(None)
    ELSE IF val.t # "str" THEN Raise("AttributeError")
    ELSE LET parts == str_split(val.v, <<",">>)
         IN  Return(PyList([i \in 1..Len(parts) |-> PyStr(parts[i])]))

\* _str_to_list: None for a falsy value, else the list val.split(sep)
_str_to_list(val, sep) ==
    IF ~Truthy(val) THEN Return(None)
    ELSE IF val.t # "str" THEN Raise("AttributeError")
    ELSE LET parts == str_split(val.v, sep)
         IN  Return(PyList([i \in 1..Len(parts) |-> PyStr(parts[i])]))

\* _norm_list: the list after the in-place truncation or padding
_norm_list(values, size) ==
    IF values.t = "none" \/ size < 0 THEN values
    ELSE IF Len(values.v) > size THEN PyList(SubSeq(values.v, 1, size))
    ELSE PyList(values.v \o [i \in 1..(size - Len(values.v)) |-> None])

\* pair_mappers storing 'mappers' only when there is a credit
pair_mappers_nonempty(map_json, mapper_names, mapper_id64s) ==
    LET length == Max(Len(mapper_names.v), Len(mapper_id64s.v))
        names == _norm_list(mapper_names, length)
        id64s == _norm_list(mapper_id64s, length)
        made == [i \in 1..length |-> Mapper(names.v[i], id64s.v[i])]
        bad == {i \in 1..length : made[i].exc # ""}
    IN  IF bad # {}
        THEN Fail(made[CHOOSE i \in bad : \A j \in bad : i <= j].exc, map_json)
        ELSE IF length = 0 THEN Done(map_json)
        ELSE Done(SetKey(map_json, _MAPPERS_KEY,
                         PyList([i \in 1..length |-> made[i].val])))

\* _fix_mappers from `length = max(...)` on: align the two lists, pair them
\* positionally and store the credits under 'mappers'
pair_mappers(map_json, mapper_names, mapper_id64s) ==
    LET length == Max(Len(mapper_names.v), Len(mapper_id64s.v))
        names == _norm_list(mapper_names, length)
        id64s == _norm_list(mapper_id64s, length)
        made == [i \in 1..length |-> Mapper(names.v[i], id64s.v[i])]
        bad == {i \in 1..length : made[i].exc # ""}
    IN  IF bad # {}
        THEN Fail(made[CHOOSE i \in bad : \A j \in bad : i <= j].exc, map_json)
        ELSE Done(SetKey(map_json, _MAPPERS_KEY,
                         PyList([i \in 1..length |-> made[i].val])))

_fix_mappers(map_json) ==
    IF DOMAIN map_json = {} THEN Done(map_json)
    ELSE
    LET hasNames == HasKey(map_json, _MAPPER_NAME_KEY)
        mapper_names == IF hasNames
                        THEN _str_to_list(map_json[_MAPPER_NAME_KEY], _STR_SEPARATOR)
                        ELSE Return(PyList(<<>>))
        d1 == IF hasNames THEN DelKey(map_json, _MAPPER_NAME_KEY) ELSE map_json
        hasIds == HasKey(d1, _MAPPER_ID64_KEY)
        mapper_id64s == IF hasIds
                        THEN _str_to_list(d1[_MAPPER_ID64_KEY], _STR_SEPARATOR)
                        ELSE Return(PyList(<<>>))
        d2 == IF hasIds THEN DelKey(d1, _MAPPER_ID64_KEY) ELSE d1
    IN  IF mapper_names.exc # "" THEN Fail(mapper_names.exc, map_json)
        ELSE IF mapper_id64s.exc # "" THEN Fail(mapper_id64s.exc, d1)
        \* len(None)
        ELSE IF mapper_names.val.t # "list" \/ mapper_id64s.val.t # "list"
        THEN Fail("TypeError", d2)
        ELSE pair_mappers(d2, mapper_names.val, mapper_id64s.val)

HttpText == <<"h", "t", "t", "p", ":", "/", "/">>
HttpsText == <<"h", "t", "t", "p", "s", ":", "/", "/">>

\* url_replace matching the scheme name alone: 'http' -> 'https'
url_replace_scheme(url) ==
    str_replace(str_replace(url, <<"h", "t", "t", "p">>, <<"h", "t", "t", "p", "s">>),
                <<"/", "?">>, <<"?">>)

\* url.replace('http://', 'https://', 1).replace('/?', '?', 1)
url_replace(url) ==
    str_replace(str_replace(url, HttpText, HttpsText), <<"/", "?">>, <<"?">>)

RECURSIVE fix_urls_loop(_, _)
fix_urls_loop(map_json, k) ==
    IF k > Len(_URL_KEYS) THEN Done(map_json)
    ELSE LET key == _URL_KEYS[k]
         IN  IF ~HasKey(map_json, key) THEN Fail("KeyError", map_json)
             ELSE IF map_json[key].t # "str" THEN Fail("AttributeError", map_json)
             ELSE fix_urls_loop(
                    SetKey(map_json, key, PyStr(url_replace(map_json[key].v))), k + 1)

_fix_urls(map_json) ==
    IF DOMAIN map_json = {} THEN Done(map_json) ELSE fix_urls_loop(map_json, 1)

\* fix_type testing the presence of the key instead of the truth of the value
fix_type_present(map_json, key) ==
    IF ~HasKey(map_json, key) THEN Done(map_json)
    ELSE LET n == py_int(map_json[key])
         IN  IF n.exc # "" THEN Fail(n.exc, map_json)
             ELSE Done(SetKey(map_json, key, n.val))

\* one iteration of the loop of _fix_types
fix_type(map_json, key) ==
    LET val == IF HasKey(map_json, key) THEN map_json[key] ELSE None
    IN  IF ~Truthy(val) THEN Done(map_json)
        ELSE LET n == py_int(val)
             IN  IF n.exc # "" THEN Fail(n.exc, map_json)
                 ELSE Done(SetKey(map_json, key, n.val))

RECURSIVE fix_types_loop(_, _)
fix_types_loop(map_json, k) ==
    IF k > Len(_INT_KEYS) THEN Done(map_json)
    ELSE LET r == fix_type(map_json, _INT_KEYS[k])
         IN  IF r.exc # "" THEN r ELSE fix_types_loop(r.rec, k + 1)

_fix_types(map_json) ==
    IF DOMAIN map_json = {} THEN Done(map_json) ELSE fix_types_loop(map_json, 1)

\* the body of the loop of _fix_maps, for one record
fix_map(map_json) ==
    LET a == _fix_mappers(map_json)
        b == _fix_urls(a.rec)
        c == _fix_types(b.rec)
    IN  IF a.exc # "" THEN a ELSE IF b.exc # "" THEN b ELSE c

(***************************************************************************)
(* update.py: the writer.  A path is the sequence of its components, a     *)
(* file name a str; the names of the model contain no path separator.      *)
(***************************************************************************)
PyPath(p) == [t |-> "path", v |-> p]

\* the directory of update.py, and the one above it
_CURRENT_PATH == << <<"r", "e", "p", "o">>, <<"s", "r", "c">> >>
_PARENT_PATH == Append(_CURRENT_PATH, <<".", ".">>)

\* os.path.join(path, name)
path_join(path, name) == Append(path, name)

\* os.path.normpath: drops '.', and a component together with the '..' after it
RECURSIVE normpath(_)
normpath(path) ==
    IF path = <<>> THEN <<>>
    ELSE LET front == normpath(SubSeq(path, 1, Len(path) - 1))
             last == path[Len(path)]
         IN  IF last = <<".">> THEN front
             ELSE IF last = <<".", ".">> /\ front # <<>> /\ front[Len(front)] # <<".", ".">>
             THEN SubSeq(front, 1, Len(front) - 1)
             ELSE Append(front, last)

basename(path) == path[Len(path)]
dirname(path) == SubSeq(path, 1, Len(path) - 1)

\* os.path.splitext: <<root, ext>>, ext starting at the last dot that is not leading
splitext(name) ==
    LET dots == {i \in 2..Len(name) : name[i] = "."}
    IN  IF dots = {} THEN <<name, <<>>>>
        ELSE LET i == CHOOSE d \in dots : \A e \in dots : e <= d
             IN  <<SubSeq(name, 1, i - 1), SubSeq(name, i, Len(name))>>

\* os.makedirs: the directory and every missing ancestor
makedirs(ds, path) == ds \cup {SubSeq(path, 1, n) : n \in 1..Len(path)}

\* json.dumps(json_object, indent=4) and json.dumps(json_object, separators=(',', ':')):
\* the text is kept as the document it encodes and the layout it is written in.
\* No character of the model is a backslash or outside ASCII, so _unescape
\* leaves these texts as they are.
dumps_indent(json_object) == [indent |-> _JSON_INDENT, doc |-> json_object]
dumps_compact(json_object) == [indent |-> 0, doc |-> json_object]

\* open(path, 'w').write(text)
write_file(fs, path, text) ==
    [p \in DOMAIN fs \cup {path} |-> IF p = path THEN text ELSE fs[p]]

\* _dump_json: [exc, ok, files, dirs], the file system as the call leaves it
_dump_json(file_path, file_name, json_object, fs, ds) ==
    IF file_path.t = "none" \/ ~Truthy(json_object)
    THEN [exc |-> "", ok |-> FALSE, files |-> fs, dirs |-> ds]
    ELSE
    LET norm == normpath(file_path.v)
        unnamed == ~Truthy(file_name)
        dir == IF unnamed THEN dirname(norm) ELSE norm
        name == IF unnamed THEN splitext(basename(norm))[1] ELSE file_name.v
        ds2 == IF dir # <<>> /\ dir \notin ds THEN makedirs(ds, dir) ELSE ds
        dump_path == path_join(dir, name)
        fs1 == write_file(fs, dirname(dump_path) \o <<name \o _DUMP_JSON_FILE_EXT>>,
                          dumps_indent(json_object))
        fs2 == write_file(fs1, dirname(dump_path) \o <<name \o _DUMP_JSON_FILE_MIN_EXT>>,
                          dumps_compact(json_object))
    IN  IF unnamed /\ norm = <<>>
        THEN [exc |-> "", ok |-> FALSE, files |-> fs, dirs |-> ds]
        \* os.path.join(str, non-str)
        ELSE IF ~unnamed /\ file_name.t # "str"
        THEN [exc |-> "TypeError", ok |-> FALSE, files |-> fs, dirs |-> ds2]
        ELSE [exc |-> "", ok |-> TRUE, files |-> fs2, dirs |-> ds2]

(***************************************************************************)
(* Inputs of the transforms                                                *)
(***************************************************************************)
\* all concatenations of at most n fragments of F
RECURSIVE FragStrings(_, _)
FragStrings(F, n) ==
    IF n = 0 THEN {<<>>}
    ELSE LET S == FragStrings(F, n - 1)
         IN  S \cup {s \o f : s \in S, f \in F}

NameFrags == {<<"a">>, _STR_SEPARATOR, NullText}
IdFrags == {<<"1">>, _STR_SEPARATOR, NullText, <<"x">>}
RawFrags == {<<"1">>, NullText, <<"x">>, <<" ">>}
UrlFrags == {HttpText, <<"h", "t", "t", "p", ":", "/">>, <<"/", "?">>, <<"/">>, <<"?">>, <<"x">>}
IntFrags == {<<"5">>, <<"x">>, <<"-">>, <<" ">>}

StrValues(F) == {PyStr(s) : s \in FragStrings(F, MaxFrags)}

\* a key of a dict: missing, or present with one of the values
Absent == [has |-> FALSE, val |-> None]
FieldOpts(values) == {Absent} \cup {[has |-> TRUE, val |-> x] : x \in values}
WithField(d, k, o) == IF o.has THEN SetKey(d, k, o.val) ELSE d

BaseRecord == [k \in {_NAME_KEY} |-> PyStr(<<"a">>)]

\* the main program does not move in the specifications of the transforms
MainIdle ==
    /\ pc = "idle" /\ src = 0 /\ maps_json = <<>> /\ idx = 0
    /\ files = <<>> /\ dirs = {} /\ outcome = "idle" /\ trace = <<>> /\ served = 0

UnitInit(inputs) ==
    /\ MainIdle
    /\ arg \in inputs
    /\ ret = Done(EmptyDict) /\ prev = Done(EmptyDict) /\ calls = 0

(***************************************************************************)
(* SpecMapper: Mapper(name, id64) on the raw values _fix_mappers passes:   *)
(* a str (a piece of a split) or None (padding)                            *)
(***************************************************************************)
RawValues == {None} \cup StrValues(RawFrags)

MapperNew ==
    /\ calls = 0
    /\ ret' = Mapper(arg.name, arg.id64)
    /\ prev' = ret
    /\ calls' = 1
    /\ UNCHANGED <<arg, mainVars>>

InitMapper == UnitInit([name : RawValues, id64 : RawValues])
SpecMapper == InitMapper /\ [][MapperNew]_vars

(***************************************************************************)
(* SpecMappers: _fix_mappers on one record                                 *)
(***************************************************************************)
MapperRecords ==
    {WithField(WithField(base, _MAPPER_NAME_KEY, n), _MAPPER_ID64_KEY, i) :
        base \in {EmptyDict, BaseRecord},
        n \in FieldOpts({None} \cup StrValues(NameFrags)),
        i \in FieldOpts({None} \cup StrValues(IdFrags))}

FixMappers ==
    /\ calls = 0
    /\ ret' = _fix_mappers(arg)
    /\ prev' = ret
    /\ calls' = 1
    /\ UNCHANGED <<arg, mainVars>>

InitMappers == UnitInit(MapperRecords)
SpecMappers == InitMappers /\ [][FixMappers]_vars

(***************************************************************************)
(* SpecUrls: _fix_urls applied to one record, twice                        *)
(***************************************************************************)
UrlRecords ==
    {WithField(base, _URL_KEYS[1], u) :
        base \in {EmptyDict, BaseRecord},
        u \in FieldOpts({None} \cup StrValues(UrlFrags))}

FixUrls ==
    /\ calls < 2
    /\ ret.exc = ""
    /\ ret' = _fix_urls(IF calls = 0 THEN arg ELSE ret.rec)
    /\ prev' = ret
    /\ calls' = calls + 1
    /\ UNCHANGED <<arg, mainVars>>

InitUrls == UnitInit(UrlRecords)
SpecUrls == InitUrls /\ [][FixUrls]_vars

(***************************************************************************)
(* SpecTypes: _fix_types on one record                                     *)
(***************************************************************************)
TypeValues ==
    {None, PyInt(0), PyInt(5), PyBool(FALSE), PyBool(TRUE), PyStr(<<"0">>)}
        \cup StrValues(IntFrags)

TypeRecords ==
    {WithField(WithField(base, _INT_KEYS[1], a), _INT_KEYS[2], b) :
        base \in {EmptyDict, BaseRecord},
        a \in FieldOpts(TypeValues),
        b \in FieldOpts(TypeValues)}

FixTypes ==
    /\ calls = 0
    /\ ret' = _fix_types(arg)
    /\ prev' = ret
    /\ calls' = 1
    /\ UNCHANGED <<arg, mainVars>>

InitTypes == UnitInit(TypeRecords)
SpecTypes == InitTypes /\ [][FixTypes]_vars

(***************************************************************************)
(* Spec: one run of _main                                                  *)
(***************************************************************************)
\* the records the remote serves
MainRecords == {
    \* a full record; its id is the text '5'
    [name |-> PyStr(<<"a">>), id |-> PyStr(<<"5">>),
     workshop_url |-> PyStr(HttpText \o <<"x", "/", "?">>),
     mapper_name |-> PyStr(<<"a">>), mapper_steamid64 |-> PyStr(<<"1">>)],
    \* a record named like the id of the first
    [name |-> PyStr(<<"5">>), id |-> PyInt(1), workshop_url |-> PyStr(<<"x">>)],
    \* a record with an empty name
    [name |-> PyStr(<<>>), id |-> PyInt(1), workshop_url |-> PyStr(<<"x">>)],
    \* records lacking workshop_url, name, id
    [name |-> PyStr(<<"a">>), id |-> PyInt(1)],
    [id |-> PyInt(1), workshop_url |-> PyStr(<<"x">>)],
    [name |-> PyStr(<<"a">>), workshop_url |-> PyStr(<<"x">>)],
    EmptyDict }

RECURSIVE SeqsUpTo(_, _)
SeqsUpTo(S, n) ==
    IF n <= 0 THEN {<<>>}
    ELSE LET T == SeqsUpTo(S, n - 1)
         IN  T \cup {Append(t, x) : t \in T, x \in S}

Event(e, i, n) == [ev |-> e, src |-> src, i |-> i, n |-> n]

Stop(how) ==
    /\ outcome' = how
    /\ pc' = "done"

\* requests.get / raise_for_status / response.json() raises
FetchError ==
    /\ pc = "fetch"
    /\ trace' = Append(trace, Event("fetch_error", 0, 0))
    /\ Stop("HTTPError")
    /\ UNCHANGED <<src, maps_json, idx, files, dirs, served, unitVars>>

\* _main continuing with the next source where the code returns
FetchNoData_continue ==
    /\ pc = "fetch"
    /\ trace' = Append(trace, Event("fetch", 0, 0))
    /\ maps_json' = <<>>
    /\ IF src < Len(_FILE_NAMES)
       THEN src' = src + 1 /\ UNCHANGED <<pc, outcome>>
       ELSE Stop("returned") /\ UNCHANGED src
    /\ UNCHANGED <<idx, files, dirs, served, unitVars>>

\* status 204, or a body that is a falsy JSON value: _main returns
FetchNoData ==
    /\ pc = "fetch"
    /\ trace' = Append(trace, Event("fetch", 0, 0))
    /\ maps_json' = <<>>
    /\ Stop("returned")
    /\ UNCHANGED <<src, idx, files, dirs, served, unitVars>>

\* the body is a non-empty array of records
FetchJson ==
    /\ pc = "fetch"
    /\ \E coll \in SeqsUpTo(MainRecords, MaxServed - served) \ {<<>>} :
        /\ maps_json' = coll
        /\ served' = served + Len(coll)
        /\ trace' = Append(trace, Event("fetch", 0, Len(coll)))
    /\ pc' = "fix"
    /\ idx' = 1
    /\ UNCHANGED <<src, files, dirs, outcome, unitVars>>

\* _fix_maps leaving its loop after the first record
FixMap_first_only ==
    /\ pc = "fix"
    /\ LET r == fix_map(maps_json[idx])
       IN  /\ maps_json' = [maps_json EXCEPT ![idx] = r.rec]
           /\ trace' = Append(trace, Event("fix", idx, Len(maps_json)))
           /\ IF r.exc # "" THEN Stop(r.exc) /\ UNCHANGED idx
              ELSE pc' = "dump_all" /\ UNCHANGED <<idx, outcome>>
    /\ UNCHANGED <<src, files, dirs, served, unitVars>>

\* one iteration of the loop of _fix_maps
FixMap ==
    /\ pc = "fix"
    /\ LET r == fix_map(maps_json[idx])
       IN  /\ maps_json' = [maps_json EXCEPT ![idx] = r.rec]
           /\ trace' = Append(trace, Event("fix", idx, Len(maps_json)))
           /\ IF r.exc # "" THEN Stop(r.exc) /\ UNCHANGED idx
              ELSE IF idx < Len(maps_json)
              THEN idx' = idx + 1 /\ UNCHANGED <<pc, outcome>>
              ELSE pc' = "dump_all" /\ UNCHANGED <<idx, outcome>>
    /\ UNCHANGED <<src, files, dirs, served, unitVars>>

\* a call of _dump_json by _main and the test of its result; `next`
\* says where _main goes when the call succeeds
Dump(e, file_path, file_name, json_object, next) ==
    LET d == _dump_json(PyPath(file_path), file_name, json_object, files, dirs)
    IN  /\ files' = d.files
        /\ dirs' = d.dirs
        /\ trace' = Append(trace, [Event(e, idx, Len(maps_json)) EXCEPT
                                        !.ev = IF d.exc = "" /\ ~d.ok
                                               THEN "dump_failed" ELSE e])
        /\ IF d.exc # "" THEN Stop(d.exc) /\ UNCHANGED <<src, idx>>
           ELSE IF ~d.ok THEN Stop("returned") /\ UNCHANGED <<src, idx>>
           ELSE next

\* is_success = _dump_json(_PARENT_PATH, fname, maps_json)
DumpAll ==
    /\ pc = "dump_all"
    /\ Dump("dump_all", _PARENT_PATH, PyStr(_FILE_NAMES[src].fname), PyList(maps_json),
            pc' = "dump_name" /\ idx' = 1 /\ UNCHANGED <<src, outcome>>)
    /\ UNCHANGED <<maps_json, served, unitVars>>

\* one iteration of the loop writing each record under its name
DumpName ==
    /\ pc = "dump_name"
    /\ LET map_json == maps_json[idx]
       IN  IF ~HasKey(map_json, _NAME_KEY)
           THEN /\ Stop("KeyError")
                /\ trace' = Append(trace, Event("dump_name_error", idx, Len(maps_json)))
                /\ UNCHANGED <<src, idx, files, dirs>>
           ELSE Dump("dump_name", path_join(_PARENT_PATH, _FILE_NAMES[src].fname),
                     map_json[_NAME_KEY], PyDict(map_json),
                     IF idx < Len(maps_json)
                     THEN idx' = idx + 1 /\ UNCHANGED <<src, pc, outcome>>
                     ELSE pc' = "dump_id" /\ idx' = 1 /\ UNCHANGED <<src, outcome>>)
    /\ UNCHANGED <<maps_json, served, unitVars>>

\* one iteration of the loop writing each record under str(id); after the
\* last one _main goes to the next source, or returns
DumpId ==
    /\ pc = "dump_id"
    /\ LET map_json == maps_json[idx]
       IN  IF ~HasKey(map_json, _ID_KEY)
           THEN /\ Stop("KeyError")
                /\ trace' = Append(trace, Event("dump_id_error", idx, Len(maps_json)))
                /\ UNCHANGED <<src, idx, files, dirs>>
           ELSE Dump("dump_id", path_join(_PARENT_PATH, _FILE_NAMES[src].fname),
                     py_str(map_json[_ID_KEY]), PyDict(map_json),
                     IF idx < Len(maps_json)
                     THEN idx' = idx + 1 /\ UNCHANGED <<src, pc, outcome>>
                     ELSE IF src < Len(_FILE_NAMES)
                     THEN src' = src + 1 /\ pc' = "fetch" /\ UNCHANGED <<idx, outcome>>
                     ELSE Stop("returned") /\ UNCHANGED <<src, idx>>)
    /\ UNCHANGED <<maps_json, served, unitVars>>

Init ==
    /\ pc = "fetch"
    /\ src = 1
    /\ maps_json = <<>>
    /\ idx = 0
    /\ files = <<>>
    /\ dirs = makedirs({}, _CURRENT_PATH)
    /\ outcome = "running"
    /\ trace = <<>>
    /\ served = 0
    /\ arg = EmptyDict /\ ret = Done(EmptyDict) /\ prev = Done(EmptyDict) /\ calls = 0

Next ==
    \/ FetchError
    \/ FetchNoData
    \/ FetchJson
    \/ FixMap
    \/ DumpAll
    \/ DumpName
    \/ DumpId

Spec == Init /\ [][Next]_vars

(***************************************************************************)
(* Properties of the transforms                                            *)
(***************************************************************************)
\* the ', '-separated substrings of s, by the positions of the separator
SepAt(s) == {i \in 1..Len(s) : OccursAt(s, _STR_SEPARATOR, i)}
NumPieces(s) == Cardinality(SepAt(s)) + 1
KthSep(s, k) == CHOOSE i \in SepAt(s) : Cardinality({j \in SepAt(s) : j < i}) = k - 1
Piece(s, k) ==
    SubSeq(s, IF k = 1 THEN 1 ELSE KthSep(s, k - 1) + Len(_STR_SEPARATOR),
              IF k = NumPieces(s) THEN Len(s) ELSE KthSep(s, k) - 1)

NonEmptyStr(d, k) == HasKey(d, k) /\ d[k].t = "str" /\ d[k].v # <<>>
BothNonEmpty(d) == NonEmptyStr(d, _MAPPER_NAME_KEY) /\ NonEmptyStr(d, _MAPPER_ID64_KEY)
NoValueText(s) == s \in {<<>>, NullText}
IdPieceOk(s) == NoValueText(s) \/ IsIntLiteral(s)
IdsWellFormed(d) ==
    NonEmptyStr(d, _MAPPER_ID64_KEY) =>
        \A k \in 1..NumPieces(d[_MAPPER_ID64_KEY].v) :
            IdPieceOk(Piece(d[_MAPPER_ID64_KEY].v, k))

\* C1 as stated: for a record whose mapper_name and mapper_steamid64 are
\* non-empty strings, 'mappers' is a list of max(#names, #ids) credits whose
\* i-th name is the i-th name substring and whose i-th id64 is the integer
\* value of the i-th id substring, None only where the list is shorter.
C1_AsStated ==
    (calls = 1 /\ BothNonEmpty(arg)) =>
        /\ ret.exc = ""
        /\ HasKey(ret.rec, _MAPPERS_KEY)
        /\ LET ns == arg[_MAPPER_NAME_KEY].v
               is == arg[_MAPPER_ID64_KEY].v
               m == ret.rec[_MAPPERS_KEY].v
           IN  /\ Len(m) = Max(NumPieces(ns), NumPieces(is))
               /\ \A i \in 1..Len(m) :
                    /\ m[i][NAME_KEY] =
                         IF i <= NumPieces(ns) THEN PyStr(Piece(ns, i)) ELSE None
                    /\ IF i <= NumPieces(is)
                       THEN /\ IsIntLiteral(Piece(is, i))
                            /\ m[i][ID64_KEY] = PyInt(IntLiteralValue(Piece(is, i)))
                       ELSE m[i][ID64_KEY] = None

\* C1 amended: when every id substring is empty, 'null' or an integer
\* literal, 'mappers' is a list of max(#names, #ids) credits whose i-th name
\* (id64) is the i-th name substring (the integer value of the i-th id
\* substring), or None when that list is shorter or the substring is empty
\* or 'null'; otherwise _fix_mappers raises ValueError and stores no 'mappers'.
C1_PairsSubstrings ==
    (calls = 1 /\ BothNonEmpty(arg)) =>
        LET ns == arg[_MAPPER_NAME_KEY].v
            is == arg[_MAPPER_ID64_KEY].v
        IN  IF IdsWellFormed(arg)
            THEN /\ ret.exc = ""
                 /\ HasKey(ret.rec, _MAPPERS_KEY)
                 /\ ret.rec[_MAPPERS_KEY].t = "list"
                 /\ LET m == ret.rec[_MAPPERS_KEY].v
                    IN  /\ Len(m) = Max(NumPieces(ns), NumPieces(is))
                        /\ \A i \in 1..Len(m) :
                            /\ DOMAIN m[i] = {NAME_KEY, ID64_KEY}
                            /\ m[i][NAME_KEY] =
                                 IF i <= NumPieces(ns) /\ ~NoValueText(Piece(ns, i))
                                 THEN PyStr(Piece(ns, i)) ELSE None
                            /\ m[i][ID64_KEY] =
                                 IF i <= NumPieces(is) /\ ~NoValueText(Piece(is, i))
                                 THEN PyInt(IntLiteralValue(Piece(is, i))) ELSE None
            ELSE /\ ret.exc = "ValueError"
                 /\ ~HasKey(ret.rec, _MAPPERS_KEY)

\* 'a, null' with the single id '1': two credits, (a, 1) and (None, None)
C1_Witness ==
    /\ calls = 1
    /\ BothNonEmpty(arg)
    /\ arg[_MAPPER_NAME_KEY].v = <<"a">> \o _STR_SEPARATOR \o NullText
    /\ arg[_MAPPER_ID64_KEY].v = <<"1">>
    /\ ret.exc = ""
    /\ ret.rec[_MAPPERS_KEY] = PyList(<<
            [name |-> PyStr(<<"a">>), id64 |-> PyInt(1)],
            [name |-> None, id64 |-> None] >>)

\* C2: whatever the presence and value of mapper_name and mapper_steamid64
\* (missing, null, empty, delimited string), restructuring a record
\* completes, removes both keys and leaves 'mappers' holding a list.
C2_AlwaysRestructured ==
    (calls = 1 /\ DOMAIN arg # {} /\ IdsWellFormed(arg)) =>
        /\ ret.exc = ""
        /\ ~HasKey(ret.rec, _MAPPER_NAME_KEY)
        /\ ~HasKey(ret.rec, _MAPPER_ID64_KEY)
        /\ HasKey(ret.rec, _MAPPERS_KEY)
        /\ ret.rec[_MAPPERS_KEY].t = "list"

NeitherKey(d) ==
    DOMAIN d # {} /\ ~HasKey(d, _MAPPER_NAME_KEY) /\ ~HasKey(d, _MAPPER_ID64_KEY)

\* C3 as stated: a non-empty record with neither mapper key keeps its key
\* set, no 'mappers' key is added.
C3_AsStated ==
    (calls = 1 /\ NeitherKey(arg)) => DOMAIN ret.rec = DOMAIN arg

\* C3 amended: a non-empty record with neither mapper key gets the key
\* 'mappers' holding the empty list, and keeps every other key and value.
C3_EmptyMappersAdded ==
    (calls = 1 /\ NeitherKey(arg)) =>
        /\ ret.exc = ""
        /\ DOMAIN ret.rec = DOMAIN arg \cup {_MAPPERS_KEY}
        /\ ret.rec[_MAPPERS_KEY] = PyList(<<>>)
        /\ \A k \in DOMAIN arg : ret.rec[k] = arg[k]

C3_Witness ==
    /\ calls = 1
    /\ arg = BaseRecord
    /\ ret = Done(SetKey(BaseRecord, _MAPPERS_KEY, PyList(<<>>)))

Count(s, p) == Cardinality({i \in 1..Len(s) : OccursAt(s, p, i)})

\* C4 as stated: for every string value of the URL field, applying
\* _fix_urls twice leaves the value that applying it once leaves.
C4_AsStated ==
    calls = 2 => ret.rec = prev.rec

\* C4 amended: _fix_urls is idempotent on every string value that contains
\* at most one 'http://', at most one '/?' and no '//?'.
C4_IdempotentOnSingle ==
    (/\ calls = 2
     /\ HasKey(arg, _URL_KEYS[1])
     /\ Count(arg[_URL_KEYS[1]].v, HttpText) <= 1
     /\ Count(arg[_URL_KEYS[1]].v, <<"/", "?">>) <= 1
     /\ Count(arg[_URL_KEYS[1]].v, <<"/", "/", "?">>) = 0)
        => ret.rec = prev.rec

\* 'http://x/?' becomes 'https://x?' and stays so
C4_Witness ==
    /\ calls = 2
    /\ HasKey(arg, _URL_KEYS[1])
    /\ arg[_URL_KEYS[1]].v = HttpText \o <<"x", "/", "?">>
    /\ prev.rec[_URL_KEYS[1]].v = HttpsText \o <<"x", "?">>
    /\ ret.rec[_URL_KEYS[1]].v = HttpsText \o <<"x", "?">>

Get(d, k) == IF HasKey(d, k) THEN d[k] ELSE None
Numeric(x) == x.t \in {"int", "bool"} \/ (x.t = "str" /\ IsIntLiteral(x.v))
BadInt(d, k) == Truthy(Get(d, k)) /\ ~Numeric(Get(d, k))

\* C5: for each of 'id' and 'difficulty' of a non-empty record, _fix_types
\* leaves a falsy field untouched (no key added), replaces a truthy numeric
\* value by its integer conversion, and raises for a truthy non-numeric
\* string; all other fields are unchanged.
C5_CoercesTruthy ==
    (calls = 1 /\ DOMAIN arg # {}) =>
        /\ DOMAIN ret.rec = DOMAIN arg
        /\ \A k \in DOMAIN arg : k \notin {"id", "difficulty"} => ret.rec[k] = arg[k]
        /\ \A k \in {"id", "difficulty"} :
            (HasKey(arg, k) /\ ~Truthy(arg[k])) => ret.rec[k] = arg[k]
        /\ (ret.exc # "") <=> (BadInt(arg, "id") \/ BadInt(arg, "difficulty"))
        /\ ret.exc \in {"", "ValueError"}
        /\ (Truthy(Get(arg, "id")) /\ Numeric(arg["id"]))
              => ret.rec["id"] = py_int(arg["id"]).val
        /\ (Truthy(Get(arg, "difficulty")) /\ Numeric(arg["difficulty"]) /\ ret.exc = "")
              => ret.rec["difficulty"] = py_int(arg["difficulty"]).val

\* id '5' becomes 5, difficulty 0 stays 0
C5_Witness ==
    /\ calls = 1
    /\ arg = [name |-> PyStr(<<"a">>), id |-> PyStr(<<"5">>), difficulty |-> PyInt(0)]
    /\ ret = Done([name |-> PyStr(<<"a">>), id |-> PyInt(5), difficulty |-> PyInt(0)])

\* a raw value for which Mapper stores None
NoValueRaw(x) == x.t = "none" \/ (x.t = "str" /\ NoValueText(x.v))

\* C6: a Mapper built from a raw name or id64 that is 'null', '' or None has
\* None in that field, whatever the other field; any other raw value is
\* stored as its str (name) or int (id64) conversion; both keys are present.
C6_MapperFields ==
    calls = 1 =>
        /\ (ret.exc # "") <=> (~NoValueRaw(arg.id64) /\ py_int(arg.id64).exc # "")
        /\ ret.exc = "" =>
            /\ DOMAIN ret.val = {"name", "id64"}
            /\ ret.val["name"] = IF NoValueRaw(arg.name) THEN None ELSE py_str(arg.name)
            /\ ret.val["id64"] = IF NoValueRaw(arg.id64) THEN None
                                 ELSE py_int(arg.id64).val

\* name 'null' with id64 '1': the name is None, the id64 is 1
C6_Witness ==
    /\ calls = 1
    /\ arg = [name |-> PyStr(NullText), id64 |-> PyStr(<<"1">>)]
    /\ ret = Return([name |-> None, id64 |-> PyInt(1)])


(***************************************************************************)
(* Properties of a run of _main                                            *)
(***************************************************************************)
Last(s) == s[Len(s)]
Root == normpath(_PARENT_PATH)
Label(s) == _FILE_NAMES[s].fname
CollectionFile(s, ext) == Append(Root, Label(s) \o ext)
RecordFile(s, name, ext) == Root \o <<Label(s), name \o ext>>
Exts == {_DUMP_JSON_FILE_EXT, _DUMP_JSON_FILE_MIN_EXT}

\* the run has seen a fetch without data or a _dump_json that signalled failure
AbortSeen(tr) ==
    \E p \in 1..Len(tr) :
        tr[p].ev = "dump_failed" \/ (tr[p].ev = "fetch" /\ tr[p].n = 0)

\* C7: once a fetch returns no data or a _dump_json signals failure, the
\* run has ended without an error, that step and every later one leave the
\* files as they are, and no further fetch or write follows.
C7_AbortEndsRun ==
    [][AbortSeen(trace') =>
            /\ outcome' = "returned"
            /\ pc' = "done"
            /\ files' = files
            /\ dirs' = dirs
            /\ AbortSeen(trace) => trace' = trace]_vars

\* the second source has no data, after the first was written
C7_Witness ==
    /\ outcome = "returned"
    /\ trace # <<>>
    /\ Last(trace) = [ev |-> "fetch", src |-> 2, i |-> 0, n |-> 0]
    /\ CollectionFile(1, _DUMP_JSON_FILE_EXT) \in DOMAIN files

\* the last id-keyed write of a source has just succeeded
SourceDone ==
    /\ trace # <<>>
    /\ Last(trace).ev = "dump_id"
    /\ Last(trace).i = Last(trace).n

\* C8: when a source is completed with every write succeeding, the pair
\* <root>/<label>.json, <root>/<label>.min.json holds the full normalized
\* collection: no per-record write has overwritten it.
C8_CollectionDumpKept ==
    SourceDone =>
        LET s == Last(trace).src
        IN  /\ CollectionFile(s, _DUMP_JSON_FILE_EXT) \in DOMAIN files
            /\ CollectionFile(s, _DUMP_JSON_FILE_MIN_EXT) \in DOMAIN files
            /\ files[CollectionFile(s, _DUMP_JSON_FILE_EXT)].doc = PyList(maps_json)
            /\ files[CollectionFile(s, _DUMP_JSON_FILE_MIN_EXT)].doc = PyList(maps_json)

\* the file holds a record whose field k has the value x
HoldsRecordWith(f, k, x) ==
    /\ f \in DOMAIN files
    /\ files[f].doc.t = "dict"
    /\ HasKey(files[f].doc.v, k)
    /\ files[f].doc.v[k] = x

\* C9: when a source is completed with every write succeeding, for every
\* record r (with a non-empty name) the pair <root>/<label>/<r.name> holds a
\* record named r.name and the pair <root>/<label>/<str(r.id)> holds a
\* record whose id is r.id.
C9_RecordFilesKeyed ==
    SourceDone =>
        \A i \in 1..Len(maps_json) :
            LET r == maps_json[i]
                s == Last(trace).src
            IN  Truthy(r[_NAME_KEY]) =>
                  \A ext \in Exts :
                    /\ HoldsRecordWith(RecordFile(s, r[_NAME_KEY].v, ext),
                                       _NAME_KEY, r[_NAME_KEY])
                    /\ HoldsRecordWith(RecordFile(s, py_str(r[_ID_KEY]).v, ext),
                                       _ID_KEY, r[_ID_KEY])

\* the event f may come right after the event e
Follows(e, f) ==
    CASE e.ev = "fetch" ->
            e.n > 0 /\ f.ev = "fix" /\ f.src = e.src /\ f.i = 1 /\ f.n = e.n
      [] e.ev = "fix" ->
            /\ f.src = e.src /\ f.n = e.n
            /\ IF e.i < e.n THEN f.ev = "fix" /\ f.i = e.i + 1
               ELSE f.ev \in {"dump_all", "dump_failed"}
      [] e.ev = "dump_all" ->
            /\ f.src = e.src /\ f.n = e.n
            /\ f.ev \in {"dump_name", "dump_name_error", "dump_failed"} /\ f.i = 1
      [] e.ev = "dump_name" ->
            /\ f.src = e.src /\ f.n = e.n
            /\ IF e.i < e.n
               THEN f.ev \in {"dump_name", "dump_name_error", "dump_failed"} /\ f.i = e.i + 1
               ELSE f.ev \in {"dump_id", "dump_id_error", "dump_failed"} /\ f.i = 1
      [] e.ev = "dump_id" ->
            IF e.i < e.n
            THEN /\ f.src = e.src /\ f.n = e.n
                 /\ f.ev \in {"dump_id", "dump_id_error", "dump_failed"} /\ f.i = e.i + 1
            ELSE f.ev \in {"fetch", "fetch_error"} /\ f.src = e.src + 1
      [] OTHER -> FALSE

\* the file belongs to the output of source s
FileOfSource(f, s) ==
    \/ \E ext \in Exts : f = CollectionFile(s, ext)
    \/ /\ Len(f) = Len(Root) + 2
       /\ SubSeq(f, 1, Len(Root) + 1) = Append(Root, Label(s))

\* C10: the events of a run are, source by source: fetch, normalization of
\* every record in array order, collection write, name-keyed writes in array
\* order, id-keyed writes in array order; a source has files only once all
\* of its records are normalized and its collection write is reached; the
\* next source starts only after the last id-keyed write.
C10_EventOrder ==
    /\ trace # <<>> => (trace[1].ev \in {"fetch", "fetch_error"} /\ trace[1].src = 1)
    /\ \A p \in 1..(Len(trace) - 1) : Follows(trace[p], trace[p + 1])
    /\ \A f \in DOMAIN files :
        \E s \in 1..Len(_FILE_NAMES) :
            /\ FileOfSource(f, s)
            /\ \E p \in 1..Len(trace) : trace[p].ev = "dump_all" /\ trace[p].src = s

\* the first source, of two records, is written and the second is fetched
C10_Witness ==
    /\ Len(trace) = 9
    /\ trace[1] = [ev |-> "fetch", src |-> 1, i |-> 0, n |-> 2]
    /\ trace[8].ev = "dump_id" /\ trace[8].i = 2
    /\ trace[9].ev = "fetch" /\ trace[9].src = 2

====
